---- MODULE Spec2Model ----
(***************************************************************************)
(* TravelTrackerMap (src/src/App.tsx): the pan/zoom viewport, the gesture  *)
(* handlers, click-versus-drag, the visited-country toggles and the        *)
(* projection / path / label helpers.                                      *)
(*                                                                         *)
(* Numbers.  JavaScript numbers are IEEE doubles.  A number is modelled as *)
(* a record [t, n, d]: t = "fin" with the exact fraction n/d in lowest     *)
(* terms (d > 0), or one of the special values "nan", "pinf", "ninf"       *)
(* (n = 0, d = 1).  The arithmetic follows IEEE for the special values     *)
(* (x/0, 0*Infinity, Infinity-Infinity, comparisons with NaN); rounding of *)
(* finite results is not modelled, finite results are exact.  The         *)
(* viewport updaters are modelled a second time with the rounding of       *)
(* binary64 (the definitions ending in 64), for the properties that        *)
(* depend on the low bits of a result.                                     *)
(*                                                                         *)
(* Rendering.  Handlers are closures of the last render: they read the     *)
(* useState values (isDragging, transform.k, visited) of that render, held *)
(* in `rendered`, while refs and functional updaters act on the latest     *)
(* values.  React 18 (src/README.md:78) re-renders synchronously at the    *)
(* end of a discrete event (mousedown, mouseup, click, touchstart,         *)
(* touchend) and schedules the re-render after a continuous event          *)
(* (mousemove, mouseleave, wheel, touchmove) or after a callback outside   *)
(* an event (onSnapshot): that re-render is the action Render.             *)
(***************************************************************************)
EXTENDS Integers, Sequences, FiniteSets, TLC

----------------------------------------------------------------------------
(* Bounds of the model *)

\* updates of the transform by zoom and pan events per behaviour (a reset
\* and an ignored move are not counted)
MaxUpdates == 2

\* updates of the binary64 transform per behaviour
MaxUpdates64 == 2

----------------------------------------------------------------------------
(* IEEE numbers *)

Abs(i) == IF i < 0 THEN -i ELSE i

RECURSIVE GCD(_, _)
GCD(a, b) == IF b = 0 THEN a ELSE GCD(b, a % b)

\* null, where a number may be absent
Null == [t |-> "null", n |-> 0, d |-> 1]
NaN == [t |-> "nan", n |-> 0, d |-> 1]
PInf == [t |-> "pinf", n |-> 0, d |-> 1]
NInf == [t |-> "ninf", n |-> 0, d |-> 1]

\* the finite number n/d (d # 0), in lowest terms
Fin(n, d) ==
    LET g == GCD(Abs(n), Abs(d))
        s == IF d < 0 THEN -1 ELSE 1
    IN  [t |-> "fin", n |-> s * (n \div g), d |-> s * (d \div g)]

Num(i) == [t |-> "fin", n |-> i, d |-> 1]

IsFinite(a) == a.t = "fin"
IsNaN(a) == a.t = "nan"

\* -1, 0, 1 for a number that is not NaN
Sign(a) ==
    CASE a.t = "pinf" -> 1
      [] a.t = "ninf" -> -1
      [] OTHER -> IF a.n > 0 THEN 1 ELSE IF a.n < 0 THEN -1 ELSE 0

Signed(s) == IF s > 0 THEN PInf ELSE NInf

FNeg(a) ==
    CASE a.t = "fin" -> [a EXCEPT !.n = -a.n]
      [] a.t = "pinf" -> NInf
      [] a.t = "ninf" -> PInf
      [] OTHER -> NaN

FAdd(a, b) ==
    IF IsNaN(a) \/ IsNaN(b) THEN NaN
    ELSE IF IsFinite(a) /\ IsFinite(b)
         THEN LET g == GCD(a.d, b.d)
                  l == (a.d \div g) * b.d
              IN  Fin(a.n * (l \div a.d) + b.n * (l \div b.d), l)
    ELSE IF IsFinite(a) THEN b
    ELSE IF IsFinite(b) THEN a
    ELSE IF a.t = b.t THEN a ELSE NaN

FSub(a, b) == FAdd(a, FNeg(b))

FMul(a, b) ==
    IF IsNaN(a) \/ IsNaN(b) THEN NaN
    ELSE IF IsFinite(a) /\ IsFinite(b)
         THEN LET g1 == GCD(Abs(a.n), b.d)
                  g2 == GCD(Abs(b.n), a.d)
              IN  Fin((a.n \div g1) * (b.n \div g2), (a.d \div g2) * (b.d \div g1))
    ELSE IF Sign(a) = 0 \/ Sign(b) = 0 THEN NaN
    ELSE Signed(Sign(a) * Sign(b))

FDiv(a, b) ==
    IF IsNaN(a) \/ IsNaN(b) THEN NaN
    ELSE IF IsFinite(a) /\ IsFinite(b)
         THEN IF b.n = 0
              THEN IF a.n = 0 THEN NaN ELSE Signed(a.n)
              ELSE FMul(a, Fin(b.d, b.n))
    ELSE IF IsFinite(a) THEN Num(0)
    ELSE IF IsFinite(b) THEN Signed(Sign(a) * (IF Sign(b) < 0 THEN -1 ELSE 1))
    ELSE NaN

\* a < b; false when either is NaN
FLess(a, b) ==
    /\ ~IsNaN(a)
    /\ ~IsNaN(b)
    /\ IF IsFinite(a) /\ IsFinite(b) THEN a.n * b.d < b.n * a.d
       ELSE IF a.t = b.t THEN FALSE
       ELSE a.t = "ninf" \/ b.t = "pinf"

FGreater(a, b) == FLess(b, a)

MathMax(a, b) == IF IsNaN(a) \/ IsNaN(b) THEN NaN ELSE IF FLess(a, b) THEN b ELSE a
MathMin(a, b) == IF IsNaN(a) \/ IsNaN(b) THEN NaN ELSE IF FLess(b, a) THEN b ELSE a

\* Math.sqrt on the non-negative integers that are perfect squares
MathSqrt(i) == Num(CHOOSE r \in 0..i : r * r = i)

----------------------------------------------------------------------------
(* binary64 arithmetic with rounding                                       *)
(* The numbers above are exact fractions.  Where the low bits of a result  *)
(* matter, a JavaScript number is modelled bit for bit instead: a finite   *)
(* double is a record [s, m, e] of value s * m * 2^e with s = 1 or -1 and  *)
(* m a natural number of exactly 53 bits, or zero (m empty, e = 0, s = 1;  *)
(* -0 and 0 are one value, as for ===).  Every operation computes the      *)
(* exact result and rounds it to nearest, ties to even.  The exponent      *)
(* range is not modelled: no value here is subnormal or overflows.  A      *)
(* natural number of any size is the little-endian sequence of its limbs,  *)
(* each below Base, without leading zero limbs.                            *)
(*                                                                         *)
(* TLC evaluates the arguments of an operator where they are used, each    *)
(* time they are used.  An operation F on values is therefore applied with *)
(* On1 or On2, which evaluate the operands once and bind them.             *)

LimbBits == 14
Base == 2^LimbBits
Precision == 53

Only(S) == CHOOSE r \in S : TRUE
On1(F(_), x) == Only({F(a) : a \in {x}})
On2(F(_, _), x, y) == Only({F(a, b) : a \in {x}, b \in {y}})

Limb(a, i) == IF 1 <= i /\ i <= Len(a) THEN a[i] ELSE 0

\* a without its leading zero limbs
NTrimOf(a) ==
    SubSeq(a, 1, CHOOSE i \in 0..Len(a) :
                     /\ i = 0 \/ a[i] # 0
                     /\ \A j \in (i + 1)..Len(a) : a[j] = 0)

NTrim(f) == On1(NTrimOf, << >> \o f)

\* the limbs of an integer 0 <= n < Base^2
NFromInt(n) == NTrim(<<n % Base, n \div Base>>)

\* a carry enters limb i of the limb sums s when a lower limb j overflows
\* and the limbs between j and i pass it on
Carry(s, i) ==
    \E j \in 1..(i - 1) : /\ s[j] >= Base
                          /\ \A t \in (j + 1)..(i - 1) : s[t] >= Base - 1

NAddSums(s) ==
    NTrim([i \in 1..Len(s) |-> (s[i] + (IF Carry(s, i) THEN 1 ELSE 0)) % Base])

\* a + b
NAddOf(a, b) ==
    On1(NAddSums,
        << >> \o [i \in 1..((IF Len(a) < Len(b) THEN Len(b) ELSE Len(a)) + 1) |->
                    Limb(a, i) + Limb(b, i)])

NAdd(x, y) == On2(NAddOf, x, y)

\* a borrow leaves limb i of the limb differences d when a lower limb j is
\* negative and the limbs between j and i pass it on
Borrow(d, i) ==
    \E j \in 1..(i - 1) : /\ d[j] < 0
                          /\ \A t \in (j + 1)..(i - 1) : d[t] <= 0

NSubDiffs(d) ==
    NTrim([i \in 1..Len(d) |->
             (d[i] - (IF Borrow(d, i) THEN 1 ELSE 0) + Base) % Base])

\* a - b for a >= b
NSubOf(a, b) ==
    On1(NSubDiffs, << >> \o [i \in 1..Len(a) |-> Limb(a, i) - Limb(b, i)])

NSub(x, y) == On2(NSubOf, x, y)

NLessOf(a, b) ==
    \/ Len(a) < Len(b)
    \/ /\ Len(a) = Len(b)
       /\ \E i \in 1..Len(a) : /\ a[i] < b[i]
                               /\ \A j \in (i + 1)..Len(a) : a[j] = b[j]

NLess(x, y) == On2(NLessOf, x, y)

\* the sum of the columns c of limb products, each below 2^31 and split in
\* three limbs
NMulColumns(c) ==
    NAdd(NAdd(<< >> \o [i \in 1..Len(c) |-> c[i] % Base],
              <<0>> \o [i \in 1..Len(c) |-> (c[i] \div Base) % Base]),
         <<0, 0>> \o [i \in 1..Len(c) |-> c[i] \div (Base * Base)])

\* a * b for a of at most five limbs
NMulOf(a, b) ==
    On1(NMulColumns,
        << >> \o [i \in 1..(Len(a) + Len(b)) |->
                    Limb(a, 1) * Limb(b, i) + Limb(a, 2) * Limb(b, i - 1)
                    + Limb(a, 3) * Limb(b, i - 2) + Limb(a, 4) * Limb(b, i - 3)
                    + Limb(a, 5) * Limb(b, i - 4)])

\* a * 2^n
NShlOf(a, n) ==
    IF a = << >> THEN << >>
    ELSE [i \in 1..(n \div LimbBits) |-> 0]
         \o NTrim([i \in 1..(Len(a) + 1) |->
                     ((Limb(a, i) * 2^(n % LimbBits)) % Base)
                     + (Limb(a, i - 1) \div 2^(LimbBits - (n % LimbBits)))])

\* a \div 2^n
NShrOf(a, n) ==
    NTrim([i \in 1..(Len(a) - (n \div LimbBits)) |->
             (Limb(a, (n \div LimbBits) + i) \div 2^(n % LimbBits))
             + (Limb(a, (n \div LimbBits) + i + 1) % 2^(n % LimbBits))
               * 2^(LimbBits - (n % LimbBits))])

\* bit i of a, bit 1 being the lowest
NBit(a, i) ==
    (Limb(a, (i - 1) \div LimbBits + 1) \div 2^((i - 1) % LimbBits)) % 2

\* the number of bits of a limb v > 0
LimbLen(v) == CHOOSE n \in 1..LimbBits : 2^(n - 1) <= v /\ v < 2^n

NBitLenOf(a) ==
    IF a = << >> THEN 0 ELSE (Len(a) - 1) * LimbBits + LimbLen(a[Len(a)])

\* A limb of the quotient in the long division by b, for b whose highest
\* limb has its highest bit set and a running remainder r2 < b * Base: the
\* limb is at most two below the estimate qhat from the two highest limbs
\* of r2.
NDivLimbFrom(r2, b, qhat) ==
    IF ~NLess(r2, NMulOf(b, <<qhat>>)) THEN qhat
    ELSE IF ~NLess(r2, NMulOf(b, <<qhat - 1>>)) THEN qhat - 1
    ELSE qhat - 2

NDivLimb(r2, b) ==
    On1(LAMBDA est : NDivLimbFrom(r2, b, IF est < Base THEN est ELSE Base - 1),
        (Limb(r2, Len(b) + 1) * Base + Limb(r2, Len(b))) \div b[Len(b)])

\* a step of the long division: p is the quotient and the remainder so far
\* and v the next lower limb of the dividend
NDivStep(p, v, b) ==
    On1(LAMBDA r2 :
            On1(LAMBDA d : [q |-> <<d>> \o p.q,
                            r |-> NSub(r2, NMulOf(b, <<d>>))],
                NDivLimb(r2, b)),
        NTrim(<<v>> \o p.r))

\* the quotient and the remainder once the limbs Len(a)..i of a are brought
\* down; the highest Len(b) - 1 limbs of a are below b
RECURSIVE NDivFrom(_, _, _)
NDivFrom(a, b, i) ==
    IF i > Len(a) - Len(b) + 1
    THEN [q |-> << >>, r |-> NTrim(SubSeq(a, i, Len(a)))]
    ELSE On1(LAMBDA p : NDivStep(p, a[i], b), NDivFrom(a, b, i + 1))

NDivNormal(a, b) ==
    On1(LAMBDA d : [q |-> NTrim(d.q), exact |-> d.r = << >>], NDivFrom(a, b, 1))

\* the quotient a \div b for b > 0, and whether the division is exact
NDivOf(a, b) ==
    On2(NDivNormal, NShlOf(a, LimbBits - LimbLen(b[Len(b)])),
                    NShlOf(b, LimbBits - LimbLen(b[Len(b)])))

DZero == [s |-> 1, m |-> << >>, e |-> 0]

\* whether m \div 2^sh = q is rounded up: the highest bit dropped is set,
\* and a lower one is, or q is odd
DRoundsUp(m, q, sh, sticky) ==
    /\ NBit(m, sh) = 1
    /\ \/ sticky
       \/ NBit(q, 1) = 1
       \/ NShlOf(NShrOf(m, sh - 1), sh - 1) # m

DRoundTo(s, q1, e) ==
    IF NBitLenOf(q1) > Precision
    THEN [s |-> s, m |-> NShrOf(q1, 1), e |-> e + 1]
    ELSE [s |-> s, m |-> q1, e |-> e]

\* s * m * 2^e for m of len bits (plus a little more when sticky) rounded
\* to nearest, ties to even
DRoundLen(s, m, e, sticky, len) ==
    IF len = 0 THEN DZero
    ELSE IF len <= Precision
    THEN [s |-> s, m |-> NShlOf(m, Precision - len), e |-> e - (Precision - len)]
    ELSE On1(LAMBDA q1 : DRoundTo(s, q1, e + len - Precision),
             On1(LAMBDA q : IF DRoundsUp(m, q, len - Precision, sticky)
                            THEN NAddOf(q, <<1>>) ELSE q,
                 NShrOf(m, len - Precision)))

DRoundOf(s, m, e, sticky) ==
    On1(LAMBDA len : DRoundLen(s, m, e, sticky, len), NBitLenOf(m))

DRound(s, x, e, sticky) == On1(LAMBDA m : DRoundOf(s, m, e, sticky), x)

\* the double of an integer below Base^2 in magnitude
DNum(i) == DRound(IF i < 0 THEN -1 ELSE 1, NFromInt(IF i < 0 THEN -i ELSE i), 0, FALSE)

DNeg(a) == IF a.m = << >> THEN a ELSE [a EXCEPT !.s = -a.s]

\* the sum of sa * ma * 2^e and sb * mb * 2^e
DAddAligned(sa, ma, sb, mb, e) ==
    IF sa = sb THEN DRound(sa, NAddOf(ma, mb), e, FALSE)
    ELSE IF NLessOf(ma, mb) THEN DRound(sb, NSubOf(mb, ma), e, FALSE)
    ELSE DRound(sa, NSubOf(ma, mb), e, FALSE)

DAddOf(a, b) ==
    IF a.m = << >> THEN b
    ELSE IF b.m = << >> THEN a
    ELSE On2(LAMBDA ma, mb :
                 DAddAligned(a.s, ma, b.s, mb, IF a.e < b.e THEN a.e ELSE b.e),
             NShlOf(a.m, a.e - (IF a.e < b.e THEN a.e ELSE b.e)),
             NShlOf(b.m, b.e - (IF a.e < b.e THEN a.e ELSE b.e)))

DAdd(x, y) == On2(DAddOf, x, y)

DSub(x, y) == On2(LAMBDA a, b : DAddOf(a, DNeg(b)), x, y)

DMulOf(a, b) ==
    IF a.m = << >> \/ b.m = << >> THEN DZero
    ELSE DRound(a.s * b.s, NMulOf(a.m, b.m), a.e + b.e, FALSE)

DMul(x, y) == On2(DMulOf, x, y)

\* a / b for b # 0: three bits more than the precision, and the remainder
DDivOf(a, b) ==
    IF a.m = << >> THEN DZero
    ELSE On1(LAMBDA d : DRoundOf(a.s * b.s, d.q, a.e - b.e - (Precision + 3),
                                ~d.exact),
             NDivOf(NShlOf(a.m, Precision + 3), b.m))

DDiv(x, y) == On2(DDivOf, x, y)

DLess(x, y) == On1(LAMBDA d : d.m # << >> /\ d.s = -1, DSub(x, y))

DMax(x, y) == On2(LAMBDA a, b : IF DLess(a, b) THEN b ELSE a, x, y)
DMin(x, y) == On2(LAMBDA a, b : IF DLess(b, a) THEN b ELSE a, x, y)

\* the double nearest to the decimal literal n/d
DLit(n, d) == DDiv(DNum(n), DNum(d))

----------------------------------------------------------------------------
(* Map projection *)

MAP_WIDTH == 1000
MAP_HEIGHT == 500

\* a projection that does not flip the latitude
projectNoFlip(lon, lat) ==
    [x |-> FMul(FAdd(lon, Num(180)), FDiv(Num(MAP_WIDTH), Num(360))),
     y |-> FMul(FAdd(lat, Num(90)), FDiv(Num(MAP_HEIGHT), Num(180)))]

project(lon, lat) ==
    [x |-> FMul(FAdd(lon, Num(180)), FDiv(Num(MAP_WIDTH), Num(360))),
     y |-> FMul(FAdd(FNeg(lat), Num(90)), FDiv(Num(MAP_HEIGHT), Num(180)))]

----------------------------------------------------------------------------
(* GeoJSON features, the path builder and the label anchor *)

\* A feature is [geometry |-> g]; g.kind tells whether the geometry is
\* undefined, null or an object, g.hasCoords whether the object has
\* coordinates.  A point is a sequence of numbers, a ring a sequence of
\* points.  A path string is the sequence of its instructions, '' is << >>.
Geometry(type, coordinates) ==
    [kind |-> "object", type |-> type, hasCoords |-> TRUE,
     coordinates |-> coordinates]
NoCoordinates(type) ==
    [kind |-> "object", type |-> type, hasCoords |-> FALSE, coordinates |-> << >>]
NoGeometry(kind) ==
    [kind |-> kind, type |-> "", hasCoords |-> FALSE, coordinates |-> << >>]

\* p[i] of a point as a number: undefined becomes NaN in the arithmetic
Coord(p, i) == IF i <= Len(p) THEN Num(p[i]) ELSE NaN

Instr(op, pt) == [op |-> op, x |-> pt.x, y |-> pt.y]
ClosePath == [op |-> "Z", x |-> Null, y |-> Null]

\* the instruction forEach appends for the point at index i (from 0)
drawPoint(point, i) ==
    IF Len(point) < 2 THEN << >>
    ELSE LET pt == project(Num(point[1]), Num(point[2]))
         IN  IF i = 0 THEN <<Instr("M", pt)>> ELSE <<Instr("L", pt)>>

RECURSIVE drawPoints(_, _)
drawPoints(coords, n) ==
    IF n = 0 THEN << >>
    ELSE drawPoints(coords, n - 1) \o drawPoint(coords[n], n - 1)

drawPolygon(coords) == Append(drawPoints(coords, Len(coords)), ClosePath)

RECURSIVE drawRings(_, _)
drawRings(rings, n) ==
    IF n = 0 THEN << >>
    ELSE drawRings(rings, n - 1) \o drawPolygon(rings[n])

RECURSIVE drawPolygons(_, _)
drawPolygons(polygons, n) ==
    IF n = 0 THEN << >>
    ELSE drawPolygons(polygons, n - 1)
             \o drawRings(polygons[n], Len(polygons[n]))

createPath(feature) ==
    LET geometry == feature.geometry
    IN  IF geometry.kind # "object" \/ ~geometry.hasCoords THEN << >>
        ELSE IF geometry.type = "Polygon"
             THEN drawRings(geometry.coordinates, Len(geometry.coordinates))
        ELSE IF geometry.type = "MultiPolygon"
             THEN drawPolygons(geometry.coordinates, Len(geometry.coordinates))
        ELSE << >>

\* results of getLabelPosition: a TypeError, null, or a point
Threw == [threw |-> TRUE, some |-> FALSE, x |-> Null, y |-> Null]
NoPosition == [threw |-> FALSE, some |-> FALSE, x |-> Null, y |-> Null]
Position(x, y) == [threw |-> FALSE, some |-> TRUE, x |-> x, y |-> y]

\* a choice of the ring that takes the first polygon listed
bestRingFirstListed(polygons, n) == IF n = 0 THEN << >> ELSE polygons[1][1]

\* bestRing after the first n polygons of a MultiPolygon
RECURSIVE bestRingOf(_, _)
bestRingOf(polygons, n) ==
    IF n = 0 THEN << >>
    ELSE LET best == bestRingOf(polygons, n - 1)
             poly == polygons[n]
         IN  IF Len(poly[1]) > Len(best) THEN poly[1] ELSE best

\* the bounding box after the first n points of the ring
RECURSIVE boundingBox(_, _)
boundingBox(ring, n) ==
    IF n = 0 THEN [minX |-> PInf, maxX |-> NInf, minY |-> PInf, maxY |-> NInf]
    ELSE LET b == boundingBox(ring, n - 1)
             pt == project(Coord(ring[n], 1), Coord(ring[n], 2))
         IN  [minX |-> IF FLess(pt.x, b.minX) THEN pt.x ELSE b.minX,
              maxX |-> IF FGreater(pt.x, b.maxX) THEN pt.x ELSE b.maxX,
              minY |-> IF FLess(pt.y, b.minY) THEN pt.y ELSE b.minY,
              maxY |-> IF FGreater(pt.y, b.maxY) THEN pt.y ELSE b.maxY]

labelOfRing(bestRing) ==
    IF Len(bestRing) = 0 THEN NoPosition
    ELSE LET b == boundingBox(bestRing, Len(bestRing))
         IN  Position(FDiv(FAdd(b.minX, b.maxX), Num(2)),
                      FDiv(FAdd(b.minY, b.maxY), Num(2)))

getLabelPosition(feature) ==
    LET geometry == feature.geometry
    IN  IF geometry.kind # "object" THEN Threw
        ELSE IF geometry.type = "Polygon"
             THEN IF ~geometry.hasCoords THEN Threw
                  ELSE IF Len(geometry.coordinates) > 0
                       THEN labelOfRing(geometry.coordinates[1])
                       ELSE NoPosition
        ELSE IF geometry.type = "MultiPolygon"
             THEN IF ~geometry.hasCoords THEN Threw
                  ELSE IF \E i \in 1..Len(geometry.coordinates) :
                              Len(geometry.coordinates[i]) = 0
                       THEN Threw
                       ELSE labelOfRing(bestRingOf(geometry.coordinates,
                                                   Len(geometry.coordinates)))
        ELSE NoPosition

\* the filter of the loaded features keeps those with a truthy geometry
sanitizedFeatures(features) == {f \in features : f.geometry.kind = "object"}

\* A feature of the fetched collection, as far as the loader reads it:
\* [id, pid, iso_a3, name, geometry] for f.id, f.properties.id,
\* f.properties.iso_a3, f.properties.name (each "" when missing or empty) and
\* whether f.geometry is truthy.

\* a || b on strings
OrElse(a, b) == IF a # "" THEN a ELSE b

\* the callback of data.features.map: index counts from 0
sanitizeFeature(f, index) ==
    LET rawId == OrElse(f.id, OrElse(f.pid, OrElse(f.iso_a3,
                     OrElse(f.name, "unknown-" \o ToString(index)))))
        name == OrElse(f.name, "Unknown Country")
    IN  [id |-> rawId,
         name |-> IF name = "Taiwan" THEN "Taiwan (China)" ELSE name,
         geometry |-> f.geometry]

\* data.features.map(...).filter(f => f.properties.id && f.properties.name
\* && f.geometry)
sanitizedFeatureList(features) ==
    SelectSeq([i \in 1..Len(features) |-> sanitizeFeature(features[i], i - 1)],
              LAMBDA f : f.id # "" /\ f.name # "" /\ f.geometry)

----------------------------------------------------------------------------
(* State *)

VARIABLES
    transform,          \* useState transform {k, x, y}: the latest value
    isDragging,         \* useState isDragging: the latest value
    lastMousePos,       \* useRef lastMousePos
    isDragRef,          \* useRef isDragRef: "became a drag"
    pinchDistanceRef,   \* useRef pinchDistanceRef: a number or Null
    pinchStartScaleRef, \* useRef pinchStartScaleRef
    visited,            \* useState visited: the ids that are keys of the map
    storage,            \* localStorage 'travel-tracker-visited': the ids stored
    docs,               \* Firestore collection .../visited: the document ids
    snapshotDue,        \* a write reached the collection, onSnapshot not yet called
    firebaseAvailable,  \* module variable firebaseAvailable
    rendered,           \* what the handlers' closures hold: [isDragging, k, visited]
    nTouches,           \* fingers on the surface: 0, 1, 2, or 3 for three or more
    count,              \* zoom and pan updates of the transform so far
    downPos,            \* history: the pointer position of the last pointer-down
    shape,              \* history: the events since the last pointer-down
    clicked,            \* history: what the last click on a country did
    expect,             \* history: the transform at the last pointer-down,
                        \*   shifted by the session's one move
    pair,               \* history: the toggles of one country in a row
    closed,             \* history: a release came after the last press
    pinchK0,            \* history: transform.k when two fingers last landed
    pinchLog,           \* history: the two-finger zoom moves since two fingers
                        \*   last landed, and no single-pointer down since then
    session,            \* history: the transform at the last pointer-down and
                        \*   the session's handled moves
    geoIn,              \* the helper evaluated last and its arguments
    geoOut,             \* what that evaluation produced
    geoData,            \* useState geoData: the features of the loaded map
    loadingMap,         \* useState loadingMap
    collection,         \* history: the features of the fetched collection
    transform64,        \* useState transform, its numbers as binary64
    pinchRefs64,        \* pinchDistanceRef and pinchStartScaleRef, as binary64
    count64,            \* updates of transform64 so far
    request64           \* history: the last update of transform64, the scale
                        \*   it asked for and the transform before it

vars == <<transform, isDragging, lastMousePos, isDragRef, pinchDistanceRef,
          pinchStartScaleRef, visited, storage, docs, snapshotDue,
          firebaseAvailable, rendered, nTouches, count, downPos, shape,
          clicked, expect, pair, closed, pinchK0, pinchLog, session, geoIn,
          geoOut, geoData, loadingMap, collection, transform64, pinchRefs64,
          count64, request64>>

gestureVars == <<isDragging, lastMousePos, isDragRef, pinchDistanceRef,
                 pinchStartScaleRef>>
visitVars == <<visited, storage, docs, snapshotDue>>
histVars == <<downPos, shape, clicked, expect, pair, closed, pinchK0, pinchLog,
              session>>
loadVars == <<geoData, loadingMap, collection>>
ieeeVars == <<transform64, pinchRefs64, count64, request64>>
geoVars == <<geoIn, geoOut, loadVars, ieeeVars>>

\* the features of the loaded map (properties.id)
Countries == {"FRA", "ITA"}

\* clientX, clientY of mouse events and of a single finger
Points == {<<0, 0>>, <<2, 0>>, <<4, 2>>, <<1, 3>>}

\* presses are at one point; the viewport and visited specifications move
\* between three
DownPoints == {<<0, 0>>}
MovePoints == {<<0, 0>>, <<2, 0>>, <<4, 2>>}

\* clientX, clientY of wheel events
WheelPoints == {<<500, 250>>}

\* e.deltaY of wheel events
DeltaYs == {-100, 0, 100}

\* touches[0], touches[1] of two-finger events (integer distances)
TouchPairs ==
    {<<<<195, 200>>, <<205, 200>>>>, <<<<190, 200>>, <<210, 200>>>>,
     <<<<176, 168>>, <<224, 232>>>>}

\* the two fingers land 10 px or 80 px apart and move between 10, 20 and 80 px
StartPairs == {<<<<195, 200>>, <<205, 200>>>>, <<<<176, 168>>, <<224, 232>>>>}

\* e.touches.length, as far as the handlers tell it apart: Many is three or more
TouchCounts == {0, 1, 2, 3}
Many == CHOOSE n \in TouchCounts : \A m \in TouchCounts : m <= n

\* getBoundingClientRect() of the svg
ZeroRect == [left |-> 0, top |-> 0, width |-> 0, height |-> 0]
Rects == {[left |-> 100, top |-> 50, width |-> 500, height |-> 250], ZeroRect}

\* the click and visited specifications keep the surface on screen
VisibleRects ==
    {[left |-> 100, top |-> 50, width |-> 500, height |-> 250],
     [left |-> 0, top |-> 0, width |-> 1000, height |-> 500]}

\* arguments of the history of an event without a position or a surface
NoPoint == <<0, 0>>
NoRect == ZeroRect

----------------------------------------------------------------------------
(* getTouchDistance, getTouchMidpoint *)

getTouchDistance(touches) ==
    LET a == touches[1]
        b == touches[2]
        dx == a[1] - b[1]
        dy == a[2] - b[2]
    IN  MathSqrt(dx * dx + dy * dy)

getTouchMidpoint(touches) ==
    LET a == touches[1]
        b == touches[2]
    IN  [x |-> FDiv(Num(a[1] + b[1]), Num(2)), y |-> FDiv(Num(a[2] + b[2]), Num(2))]

----------------------------------------------------------------------------
(* Viewport updaters *)

\* a clamp that forgets the upper bound
ClampScaleLowerOnly(v) == MathMax(Num(1), v)

\* Math.max(1, Math.min(8, v))
ClampScale(v) == MathMax(Num(1), MathMin(Num(8), v))

\* the button zoom factors: handleZoom(1.2), handleZoom(0.8)
ZoomFactors == {Fin(12, 10), Fin(8, 10)}

\* cx, cy of handleZoom
Centre == <<FDiv(Num(MAP_WIDTH), Num(2)), FDiv(Num(MAP_HEIGHT), Num(2))>>

\* setTransform(prev => ...) of handleZoom
handleZoomUpdate(prev, factor) ==
    LET newK == ClampScale(FMul(prev.k, factor))
        cx == Centre[1]
        cy == Centre[2]
    IN  [k |-> newK,
         x |-> FSub(cx, FMul(FSub(cx, prev.x), FDiv(newK, prev.k))),
         y |-> FSub(cy, FMul(FSub(cy, prev.y), FDiv(newK, prev.k)))]

\* a wheel that zooms in where it should zoom out
WheelScaleFactorSwapped(deltaY) == IF deltaY > 0 THEN Fin(11, 10) ELSE Fin(9, 10)

\* const scaleFactor = e.deltaY > 0 ? 0.9 : 1.1
WheelScaleFactor(deltaY) == IF deltaY > 0 THEN Fin(9, 10) ELSE Fin(11, 10)

\* a client position in viewBox coordinates: svgMx, svgMy
SvgPoint(cx, cy, rect) ==
    LET mx == FSub(cx, Num(rect.left))
        my == FSub(cy, Num(rect.top))
    IN  <<FMul(mx, FDiv(Num(MAP_WIDTH), Num(rect.width))),
          FMul(my, FDiv(Num(MAP_HEIGHT), Num(rect.height)))>>

\* a wheel zoom that scales the offset by the inverse ratio
handleWheelUpdateInverse(prev, deltaY, clientX, clientY, rect) ==
    LET newK == ClampScale(FMul(prev.k, WheelScaleFactor(deltaY)))
        svg == SvgPoint(Num(clientX), Num(clientY), rect)
    IN  [k |-> newK,
         x |-> FSub(svg[1], FMul(FSub(svg[1], prev.x), FDiv(prev.k, newK))),
         y |-> FSub(svg[2], FMul(FSub(svg[2], prev.y), FDiv(prev.k, newK)))]

\* setTransform(prev => ...) of handleWheel
handleWheelUpdate(prev, deltaY, clientX, clientY, rect) ==
    LET newK == ClampScale(FMul(prev.k, WheelScaleFactor(deltaY)))
        svg == SvgPoint(Num(clientX), Num(clientY), rect)
    IN  [k |-> newK,
         x |-> FSub(svg[1], FMul(FSub(svg[1], prev.x), FDiv(newK, prev.k))),
         y |-> FSub(svg[2], FMul(FSub(svg[2], prev.y), FDiv(newK, prev.k)))]

\* a pinch scale with the ratio of the distances upside down
DesiredScaleInverted(startScale, currentDistance, pinchDistance) ==
    ClampScale(FMul(startScale, FDiv(pinchDistance, currentDistance)))

\* desiredScale of handleTouchMove
DesiredScale(startScale, currentDistance, pinchDistance) ==
    ClampScale(FMul(startScale, FDiv(currentDistance, pinchDistance)))

\* a pinch that sets the scale and leaves the translation where it was
handleTouchMoveUpdateUnanchored(prev, desiredScale, svgMx, svgMy) ==
    [k |-> desiredScale, x |-> prev.x, y |-> prev.y]

\* setTransform(prev => ...) of handleTouchMove
handleTouchMoveUpdate(prev, desiredScale, svgMx, svgMy) ==
    [k |-> desiredScale,
     x |-> FSub(svgMx, FMul(FSub(svgMx, prev.x), FDiv(desiredScale, prev.k))),
     y |-> FSub(svgMy, FMul(FSub(svgMy, prev.y), FDiv(desiredScale, prev.k)))]

\* scaleRatio of handleMouseMove; mapRef.current is the mounted svg
ScaleRatio(rect) == FDiv(Num(MAP_WIDTH), Num(rect.width))

\* a pan that keeps the left edge of the map at or right of the origin
handleMouseMoveUpdateClamped(prev, dx, dy, scaleRatio) ==
    [prev EXCEPT !.x = MathMin(Num(0), FAdd(prev.x, FMul(Num(dx), scaleRatio))),
                 !.y = FAdd(prev.y, FMul(Num(dy), scaleRatio))]

\* setTransform(prev => ...) of handleMouseMove
handleMouseMoveUpdate(prev, dx, dy, scaleRatio) ==
    [prev EXCEPT !.x = FAdd(prev.x, FMul(Num(dx), scaleRatio)),
                 !.y = FAdd(prev.y, FMul(Num(dy), scaleRatio))]

\* a threshold that wants both axes to exceed 2 px
ExceedsThresholdBothAxes(dx, dy) == Abs(dx) > 2 /\ Abs(dy) > 2

\* Math.abs(dx) > 2 || Math.abs(dy) > 2
ExceedsThreshold(dx, dy) == Abs(dx) > 2 \/ Abs(dy) > 2

----------------------------------------------------------------------------
(* Viewport updaters in binary64 *)

\* Math.max(1, Math.min(8, v))
ClampScale64(v) == DMax(DNum(1), DMin(DNum(8), v))

\* the literals 1.2 and 0.8 of the zoom buttons
ZoomIn64 == DLit(12, 10)
ZoomOut64 == DLit(8, 10)
ZoomFactors64 == {ZoomIn64, ZoomOut64}

\* cx = MAP_WIDTH / 2, cy = MAP_HEIGHT / 2
CenterX64 == DDiv(DNum(MAP_WIDTH), DNum(2))
CenterY64 == DDiv(DNum(MAP_HEIGHT), DNum(2))

\* { k: newK, x: fx - (fx - prev.x) * (newK / prev.k),
\*   y: fy - (fy - prev.y) * (newK / prev.k) }
ZoomAbout64(prev, newK, fx, fy) ==
    On1(LAMBDA ratio : [k |-> newK,
                        x |-> DSub(fx, DMul(DSub(fx, prev.x), ratio)),
                        y |-> DSub(fy, DMul(DSub(fy, prev.y), ratio))],
        DDiv(newK, prev.k))

\* setTransform(prev => ...) of handleZoom
handleZoomUpdate64(prev, factor) ==
    On1(LAMBDA newK : ZoomAbout64(prev, newK, CenterX64, CenterY64),
        ClampScale64(DMul(prev.k, factor)))

\* const scaleFactor = e.deltaY > 0 ? 0.9 : 1.1
WheelOut64 == DLit(9, 10)
WheelIn64 == DLit(11, 10)
WheelScaleFactor64(deltaY) == IF deltaY > 0 THEN WheelOut64 ELSE WheelIn64

\* a client position in viewBox coordinates: svgMx, svgMy
SvgPoint64(cx, cy, rect) ==
    <<DMul(DSub(cx, DNum(rect.left)), DDiv(DNum(MAP_WIDTH), DNum(rect.width))),
      DMul(DSub(cy, DNum(rect.top)), DDiv(DNum(MAP_HEIGHT), DNum(rect.height)))>>

\* setTransform(prev => ...) of handleWheel
handleWheelUpdate64(prev, deltaY, clientX, clientY, rect) ==
    On2(LAMBDA newK, svg : ZoomAbout64(prev, newK, svg[1], svg[2]),
        ClampScale64(DMul(prev.k, WheelScaleFactor64(deltaY))),
        SvgPoint64(DNum(clientX), DNum(clientY), rect))

\* getTouchDistance for touches an integer number of pixels apart
getTouchDistance64(touches) ==
    LET a == touches[1]
        b == touches[2]
        dx == a[1] - b[1]
        dy == a[2] - b[2]
    IN  DNum(CHOOSE r \in 0..(dx * dx + dy * dy) : r * r = dx * dx + dy * dy)

getTouchMidpoint64(touches) ==
    [x |-> DDiv(DNum(touches[1][1] + touches[2][1]), DNum(2)),
     y |-> DDiv(DNum(touches[1][2] + touches[2][2]), DNum(2))]

\* pinchStartScaleRef.current * scaleFactor, before the clamp
PinchTarget64(startScale, currentDistance, pinchDistance) ==
    DMul(startScale, DDiv(currentDistance, pinchDistance))

\* setTransform(prev => ...) of handleTouchMove
handleTouchMoveUpdate64(prev, desiredScale, svgMx, svgMy) ==
    ZoomAbout64(prev, desiredScale, svgMx, svgMy)

\* setTransform(prev => ...) of handleMouseMove
handleMouseMoveUpdate64(prev, dx, dy, scaleRatio) ==
    On1(LAMBDA ratio : [prev EXCEPT !.x = DAdd(prev.x, DMul(DNum(dx), ratio)),
                                    !.y = DAdd(prev.y, DMul(DNum(dy), ratio))],
        scaleRatio)

----------------------------------------------------------------------------
(* Rendering *)

Latest == [isDragging |-> isDragging, k |-> transform.k, visited |-> visited]

\* the synchronous re-render that ends a discrete event
Flush ==
    rendered' = [isDragging |-> isDragging', k |-> transform'.k,
                 visited |-> visited']

\* the scheduled re-render after a continuous event or a snapshot
Render ==
    /\ rendered # Latest
    /\ rendered' = Latest
    /\ UNCHANGED <<transform, gestureVars, visitVars, firebaseAvailable, nTouches,
                   count>>

----------------------------------------------------------------------------
(* Zoom buttons and wheel *)

\* onClick={() => handleZoom(factor)}
handleZoom(factor) ==
    /\ transform' = handleZoomUpdate(transform, factor)
    /\ count' = count + 1
    /\ UNCHANGED <<gestureVars, visitVars, firebaseAvailable, nTouches>>
    /\ Flush

\* a reset that also ends the press
handleResetZoomReleases ==
    /\ transform' = [k |-> Num(1), x |-> Num(0), y |-> Num(0)]
    /\ isDragging' = FALSE
    /\ UNCHANGED <<lastMousePos, isDragRef, pinchDistanceRef, pinchStartScaleRef,
                   visitVars, firebaseAvailable, nTouches, count>>
    /\ Flush

\* onClick={handleResetZoom}
handleResetZoom ==
    /\ transform' = [k |-> Num(1), x |-> Num(0), y |-> Num(0)]
    /\ UNCHANGED <<gestureVars, visitVars, firebaseAvailable, nTouches, count>>
    /\ Flush

\* onWheel={handleWheel}: a continuous event
handleWheel(deltaY, p, rect) ==
    /\ transform' = handleWheelUpdate(transform, deltaY, p[1], p[2], rect)
    /\ count' = count + 1
    /\ UNCHANGED <<gestureVars, visitVars, firebaseAvailable, nTouches, rendered>>

----------------------------------------------------------------------------
(* Pointer handlers *)

\* the body of handleMouseDown
MouseDownBody(p) ==
    /\ isDragging' = TRUE
    /\ isDragRef' = FALSE
    /\ lastMousePos' = p

\* a move that pans by the delta and forgets to record the pointer position
MouseMoveBodyKeepsLast(p, rect) ==
    IF ~rendered.isDragging
    THEN UNCHANGED <<transform, isDragRef, lastMousePos>>
    ELSE LET dx == p[1] - lastMousePos[1]
             dy == p[2] - lastMousePos[2]
         IN  /\ isDragRef' = (ExceedsThreshold(dx, dy) \/ isDragRef)
             /\ transform' = handleMouseMoveUpdate(transform, dx, dy, ScaleRatio(rect))
             /\ lastMousePos' = lastMousePos

\* the body of handleMouseMove, with the isDragging of the handler's render
MouseMoveBody(p, rect) ==
    IF ~rendered.isDragging
    THEN UNCHANGED <<transform, isDragRef, lastMousePos>>
    ELSE LET dx == p[1] - lastMousePos[1]
             dy == p[2] - lastMousePos[2]
         IN  /\ isDragRef' = (ExceedsThreshold(dx, dy) \/ isDragRef)
             /\ transform' = handleMouseMoveUpdate(transform, dx, dy, ScaleRatio(rect))
             /\ lastMousePos' = p

\* onMouseDown={handleMouseDown}
handleMouseDown(p) ==
    /\ MouseDownBody(p)
    /\ UNCHANGED <<transform, pinchDistanceRef, pinchStartScaleRef, visitVars,
                   firebaseAvailable, nTouches, count>>
    /\ Flush

\* onMouseMove={handleMouseMove}: a continuous event
handleMouseMove(p, rect) ==
    /\ MouseMoveBody(p, rect)
    /\ count' = IF rendered.isDragging THEN count + 1 ELSE count
    /\ UNCHANGED <<isDragging, pinchDistanceRef, pinchStartScaleRef, visitVars,
                   firebaseAvailable, nTouches, rendered>>

\* a release that also clears the became-a-drag flag
handleMouseUpClearsFlag ==
    /\ isDragging' = FALSE
    /\ isDragRef' = FALSE
    /\ UNCHANGED <<transform, lastMousePos, pinchDistanceRef, pinchStartScaleRef,
                   visitVars, firebaseAvailable, nTouches, count>>
    /\ Flush

\* onMouseUp={handleMouseUp}
handleMouseUp ==
    /\ isDragging' = FALSE
    /\ UNCHANGED <<transform, lastMousePos, isDragRef, pinchDistanceRef,
                   pinchStartScaleRef, visitVars, firebaseAvailable, nTouches,
                   count>>
    /\ Flush

\* onMouseLeave={handleMouseUp}: a continuous event
handleMouseLeave ==
    /\ isDragging' = FALSE
    /\ UNCHANGED <<transform, lastMousePos, isDragRef, pinchDistanceRef,
                   pinchStartScaleRef, visitVars, firebaseAvailable, nTouches,
                   count, rendered>>

----------------------------------------------------------------------------
(* Touch handlers *)

\* a ref's number is truthy: not null, not 0, not NaN
Truthy(v) == v # Null /\ ~IsNaN(v) /\ Sign(v) # 0

\* onTouchStart={handleTouchStart}, two touches on the surface
handleTouchStartPinch(touches) ==
    /\ nTouches < 2
    /\ nTouches' = 2
    /\ pinchDistanceRef' = getTouchDistance(touches)
    /\ pinchStartScaleRef' = rendered.k
    /\ isDragRef' = FALSE
    /\ isDragging' = FALSE
    /\ UNCHANGED <<transform, lastMousePos, visitVars, firebaseAvailable, count>>
    /\ Flush

\* onTouchStart={handleTouchStart}, one touch or more than two: handleMouseDown(e)
handleTouchStartSingle(n, p) ==
    /\ n > nTouches \/ (n = Many /\ nTouches = Many)
    /\ n # 2
    /\ nTouches' = n
    /\ MouseDownBody(p)
    /\ UNCHANGED <<transform, pinchDistanceRef, pinchStartScaleRef, visitVars,
                   firebaseAvailable, count>>
    /\ Flush

\* onTouchMove={handleTouchMove}, two touches and a pinch baseline: a
\* continuous event
handleTouchMovePinch(touches, rect) ==
    /\ nTouches = 2
    /\ Truthy(pinchDistanceRef)
    /\ LET currentDistance == getTouchDistance(touches)
           desiredScale == DesiredScale(pinchStartScaleRef, currentDistance,
                                        pinchDistanceRef)
           midpoint == getTouchMidpoint(touches)
           svg == SvgPoint(midpoint.x, midpoint.y, rect)
       IN  transform' = handleTouchMoveUpdate(transform, desiredScale, svg[1], svg[2])
    /\ count' = count + 1
    /\ UNCHANGED <<gestureVars, visitVars, firebaseAvailable, nTouches, rendered>>

\* onTouchMove={handleTouchMove}, any other case: handleMouseMove(e) with touches[0]
handleTouchMoveDrag(p, rect) ==
    /\ nTouches >= 1
    /\ nTouches = 2 => ~Truthy(pinchDistanceRef)
    /\ MouseMoveBody(p, rect)
    /\ count' = IF rendered.isDragging THEN count + 1 ELSE count
    /\ UNCHANGED <<isDragging, pinchDistanceRef, pinchStartScaleRef, visitVars,
                   firebaseAvailable, nTouches, rendered>>

\* onTouchEnd={handleTouchEnd}; n touches stay on the surface
handleTouchEnd(n) ==
    /\ n < nTouches \/ (n = Many /\ nTouches = Many)
    /\ nTouches' = n
    /\ IF n < 2
       THEN /\ pinchDistanceRef' = Null
            /\ pinchStartScaleRef' = rendered.k
       ELSE UNCHANGED <<pinchDistanceRef, pinchStartScaleRef>>
    /\ isDragging' = FALSE
    /\ UNCHANGED <<transform, lastMousePos, isDragRef, visitVars,
                   firebaseAvailable, count>>
    /\ Flush

----------------------------------------------------------------------------
(* Visited countries *)

\* a toggle that builds the new map from the toggled country alone
toggleCountryForgets(id) ==
    LET isVisited == id \in rendered.visited
    IN  IF ~firebaseAvailable
        THEN LET newVisited == IF isVisited THEN {} ELSE {id}
             IN  /\ visited' = newVisited
                 /\ storage' = newVisited
                 /\ UNCHANGED <<docs, snapshotDue>>
        ELSE /\ docs' = IF isVisited THEN docs \ {id} ELSE docs \cup {id}
             /\ snapshotDue' = TRUE
             /\ UNCHANGED <<visited, storage>>

\* toggleCountry(feature): user is set and properties.id is not empty for
\* every feature of the loaded map; visited is the handler's render value
toggleCountry(id) ==
    LET isVisited == id \in rendered.visited
    IN  IF ~firebaseAvailable
        THEN LET newVisited == IF isVisited THEN rendered.visited \ {id}
                               ELSE rendered.visited \cup {id}
             IN  /\ visited' = newVisited
                 /\ storage' = newVisited
                 /\ UNCHANGED <<docs, snapshotDue>>
        ELSE /\ docs' = IF isVisited THEN docs \ {id} ELSE docs \cup {id}
             /\ snapshotDue' = TRUE
             /\ UNCHANGED <<visited, storage>>

\* toggleById(id, name): the list entry's onClick
toggleById(id) ==
    LET isVisited == id \in rendered.visited
    IN  IF ~firebaseAvailable
        THEN LET newVisited == IF isVisited THEN rendered.visited \ {id}
                               ELSE rendered.visited \cup {id}
             IN  /\ visited' = newVisited
                 /\ storage' = newVisited
                 /\ UNCHANGED <<docs, snapshotDue>>
        ELSE /\ docs' = IF isVisited THEN docs \ {id} ELSE docs \cup {id}
             /\ snapshotDue' = TRUE
             /\ UNCHANGED <<visited, storage>>

\* onClick={() => handleCountryClick(feature)} of a country's path
handleCountryClick(id) ==
    /\ IF isDragRef
       THEN UNCHANGED visitVars
       ELSE toggleCountry(id)
    /\ UNCHANGED <<transform, gestureVars, firebaseAvailable, nTouches, count>>
    /\ Flush

\* onClick={() => toggleById(id, name)} of a list entry
handleListClick(id) ==
    /\ toggleById(id)
    /\ UNCHANGED <<transform, gestureVars, firebaseAvailable, nTouches, count>>
    /\ Flush

\* the onSnapshot callback: setVisited(newVisited), outside any event
onSnapshot ==
    /\ firebaseAvailable
    /\ snapshotDue
    /\ visited' = docs
    /\ snapshotDue' = FALSE
    /\ UNCHANGED <<transform, gestureVars, storage, docs, firebaseAvailable,
                   rendered, nTouches, count>>

----------------------------------------------------------------------------
(* Evaluations of the map helpers *)

Lons == {-180, -90, 0, 90, 180}
Lats == {-90, -45, 0, 45, 90}

Square == <<<<0, 40>>, <<10, 40>>, <<10, 50>>, <<0, 50>>, <<0, 40>>>>
Triangle == <<<<-60, -10>>, <<-40, -10>>, <<-50, 10>>>>
BadMiddle == <<<<20, 0>>, <<30>>, <<30, 10>>>>
BadFirst == <<<< >>, <<100, 0>>, <<120, 20>>>>
OnePoint == <<<<-100, 60>>>>
EmptyRing == << >>

Rings == {Square, Triangle, BadMiddle, BadFirst, OnePoint, EmptyRing}
Polygons == {<< >>} \cup {<<r>> : r \in Rings} \cup {<<Square, Triangle>>}

PolygonCoordinates ==
    {<< >>} \cup {<<r>> : r \in Rings} \cup {<<r, q>> : r, q \in Rings}
MultiPolygonCoordinates ==
    {<< >>} \cup {<<a>> : a \in Polygons} \cup {<<a, b>> : a, b \in Polygons}

Features ==
    {[geometry |-> g] :
        g \in {NoGeometry("undefined"), NoGeometry("null"),
               NoCoordinates("Polygon"), NoCoordinates("MultiPolygon"),
               NoCoordinates("Point"), Geometry("Point", <<12, 34>>)}
              \cup {Geometry("Polygon", c) : c \in PolygonCoordinates}
              \cup {Geometry("MultiPolygon", c) : c \in MultiPolygonCoordinates}}

NoFeature == [geometry |-> NoGeometry("undefined")]
NoCall == [fn |-> "none", lon |-> 0, lat |-> 0, feature |-> NoFeature]
NoResult == [path |-> << >>, pos |-> NoPosition]

EvalProject(lon, lat) ==
    /\ geoIn' = [fn |-> "project", lon |-> lon, lat |-> lat, feature |-> NoFeature]
    /\ geoOut' = LET pt == project(Num(lon), Num(lat))
                 IN  [path |-> << >>, pos |-> Position(pt.x, pt.y)]

EvalCreatePath(feature) ==
    /\ geoIn' = [fn |-> "createPath", lon |-> 0, lat |-> 0, feature |-> feature]
    /\ geoOut' = [path |-> createPath(feature), pos |-> NoPosition]

EvalGetLabelPosition(feature) ==
    /\ geoIn' = [fn |-> "getLabelPosition", lon |-> 0, lat |-> 0,
                 feature |-> feature]
    /\ geoOut' = [path |-> << >>, pos |-> getLabelPosition(feature)]

----------------------------------------------------------------------------
(* History variables: they record what happened and are read by no handler *)

\* the events since the last pointer-down: "down", then "move" (exactly one
\* move), then "up", then "click"; "none" for any other sequence
NextShape(op) ==
    CASE op = "down" -> "down"
      [] op = "move" /\ shape = "down" -> "move"
      [] op = "up" /\ shape = "move" -> "up"
      [] op = "click" /\ shape = "up" -> "click"
      [] OTHER -> "none"

\* the history of the viewport specification
Hist(op) ==
    /\ pinchK0' = IF op = "pinchstart" THEN transform.k ELSE pinchK0
    /\ closed' = CASE op \in {"up", "leave", "touchend"} -> TRUE
                   [] op \in {"down", "touchstart", "pinchstart"} -> FALSE
                   [] OTHER -> closed
    /\ pinchLog' =
          CASE op = "pinchstart" -> [moves |-> 0, suspended |-> TRUE]
            [] op = "pinch" -> [pinchLog EXCEPT !.moves = @ + 1]
            [] op \in {"down", "touchstart"} -> [pinchLog EXCEPT !.suspended = FALSE]
            [] OTHER -> pinchLog
    /\ UNCHANGED <<downPos, shape, clicked, expect, pair, session, geoVars>>

\* the history of the click specification; a move is to p on a surface of
\* the width of rect
HistClick(op, p, rect) ==
    /\ shape' = NextShape(op)
    /\ downPos' = IF op = "down" THEN p ELSE downPos
    /\ clicked' = CASE op = "click" -> IF isDragRef THEN "suppressed" ELSE "toggled"
                    [] op = "down" -> "none"
                    [] OTHER -> clicked
    /\ expect' =
          CASE op = "down" -> transform
            [] op = "move" /\ shape = "down" ->
                  [expect EXCEPT
                      !.x = FAdd(@, Fin((p[1] - downPos[1]) * MAP_WIDTH, rect.width)),
                      !.y = FAdd(@, Fin((p[2] - downPos[2]) * MAP_WIDTH, rect.width))]
            [] OTHER -> expect
    /\ session' =
          CASE op = "down" -> [t0 |-> transform, width |-> 0, moves |-> 0]
            [] op = "move" /\ rendered.isDragging ->
                  [session EXCEPT
                      !.width = IF @ \in {0, rect.width} THEN rect.width ELSE -1,
                      !.moves = @ + 1]
            [] OTHER -> session
    /\ UNCHANGED <<pair, closed, pinchK0, pinchLog, geoVars>>

\* the history of the drag-flag specification
HistFlag(op) ==
    /\ clicked' = CASE op = "click" -> IF isDragRef THEN "suppressed" ELSE "toggled"
                    [] op \in {"down", "touchstart", "pinchstart"} -> "none"
                    [] OTHER -> clicked
    /\ closed' = CASE op \in {"up", "leave", "touchend"} -> TRUE
                   [] op \in {"down", "touchstart", "pinchstart"} -> FALSE
                   [] OTHER -> closed
    /\ UNCHANGED <<downPos, shape, expect, pair, pinchK0, pinchLog, session, geoVars>>

NoPair == [n |-> 0, id |-> "", base |-> {}]
NoPinchLog == [moves |-> 0, suspended |-> FALSE]
NoSession ==
    [t0 |-> [k |-> Num(1), x |-> Num(0), y |-> Num(0)], width |-> 0, moves |-> 0]

\* the changes of visited have reached the handlers
Settled == ~snapshotDue /\ rendered = Latest

\* the history of the visited specification: id is toggled, by a click on
\* the map that is not suppressed or by a click on the list
HistToggle(id) ==
    /\ pair' = IF pair.n = 1 /\ pair.id = id
               THEN [pair EXCEPT !.n = 2]
               ELSE IF Settled
                    THEN [n |-> 1, id |-> id, base |-> visited]
                    ELSE NoPair
    /\ UNCHANGED <<downPos, shape, clicked, expect, closed, pinchK0, pinchLog,
                   session, geoVars>>

----------------------------------------------------------------------------
(* Specifications *)

\* updates of the transform are still within the bound
Budget == count < MaxUpdates

\* useState({ k: 1, x: 0, y: 0 })
Identity64 == [k |-> DNum(1), x |-> DNum(0), y |-> DNum(0)]

NoRequest64 == [op |-> "none", target |-> DNum(1), before |-> Identity64]

InitCommon ==
    /\ transform = [k |-> Num(1), x |-> Num(0), y |-> Num(0)]
    /\ isDragging = FALSE
    /\ lastMousePos = <<0, 0>>
    /\ isDragRef = FALSE
    /\ pinchDistanceRef = Null
    /\ pinchStartScaleRef = Num(1)
    /\ visited = {}
    /\ storage = {}
    /\ docs = {}
    /\ snapshotDue = FALSE
    /\ rendered = [isDragging |-> FALSE, k |-> Num(1), visited |-> {}]
    /\ nTouches = 0
    /\ count = 0
    /\ downPos = <<0, 0>>
    /\ shape = "none"
    /\ clicked = "none"
    /\ expect = [k |-> Num(1), x |-> Num(0), y |-> Num(0)]
    /\ pair = NoPair
    /\ closed = FALSE
    /\ pinchK0 = Num(1)
    /\ pinchLog = NoPinchLog
    /\ session = NoSession
    /\ geoIn = NoCall
    /\ geoOut = NoResult
    /\ geoData = << >>
    /\ loadingMap = TRUE
    /\ collection = << >>
    /\ transform64 = Identity64
    /\ pinchRefs64 = [distance |-> Null, startScale |-> DNum(1)]
    /\ count64 = 0
    /\ request64 = NoRequest64

\* the viewport and every gesture handler, in localStorage mode
Init ==
    /\ InitCommon
    /\ firebaseAvailable = FALSE

Next ==
    \/ \E f \in ZoomFactors : Budget /\ handleZoom(f) /\ Hist("zoom")
    \/ handleResetZoom /\ Hist("reset")
    \/ \E dy \in DeltaYs, p \in WheelPoints, r \in Rects :
          Budget /\ handleWheel(dy, p, r) /\ Hist("wheel")
    \/ \E p \in DownPoints : handleMouseDown(p) /\ Hist("down")
    \/ \E p \in MovePoints, r \in Rects :
          (rendered.isDragging => Budget) /\ handleMouseMove(p, r) /\ Hist("move")
    \/ handleMouseUp /\ Hist("up")
    \/ handleMouseLeave /\ Hist("leave")
    \/ \E t \in StartPairs : handleTouchStartPinch(t) /\ Hist("pinchstart")
    \/ \E n \in TouchCounts, p \in DownPoints :
          handleTouchStartSingle(n, p) /\ Hist("touchstart")
    \/ \E t \in TouchPairs, r \in Rects :
          Budget /\ handleTouchMovePinch(t, r) /\ Hist("pinch")
    \/ \E p \in MovePoints, r \in Rects :
          (rendered.isDragging => Budget) /\ handleTouchMoveDrag(p, r)
              /\ Hist("touchmove")
    \/ \E n \in TouchCounts : handleTouchEnd(n) /\ Hist("touchend")
    \/ Render /\ UNCHANGED <<histVars, geoVars>>

Spec == Init /\ [][Next]_vars

\* mouse sessions and clicks on the map, in localStorage mode
NextClick ==
    \/ \E p \in DownPoints : handleMouseDown(p) /\ HistClick("down", p, NoRect)
    \/ \E p \in Points, r \in VisibleRects :
          (rendered.isDragging => Budget) /\ handleMouseMove(p, r)
              /\ HistClick("move", p, r)
    \/ handleMouseUp /\ HistClick("up", NoPoint, NoRect)
    \/ handleMouseLeave /\ HistClick("leave", NoPoint, NoRect)
    \/ \E c \in Countries :
          handleCountryClick(c) /\ HistClick("click", NoPoint, NoRect)
    \/ Render /\ UNCHANGED <<histVars, geoVars>>

SpecClick == Init /\ [][NextClick]_vars

\* the visited countries in both modes; a drag makes clicks suppressible
InitVisit ==
    /\ InitCommon
    /\ firebaseAvailable \in BOOLEAN

NextVisit ==
    \/ \E p \in DownPoints : handleMouseDown(p) /\ UNCHANGED <<histVars, geoVars>>
    \/ \E p \in MovePoints, r \in VisibleRects :
          (rendered.isDragging => Budget) /\ handleMouseMove(p, r)
              /\ UNCHANGED <<histVars, geoVars>>
    \/ handleMouseUp /\ UNCHANGED <<histVars, geoVars>>
    \/ \E c \in Countries :
          handleCountryClick(c)
              /\ IF isDragRef THEN UNCHANGED <<histVars, geoVars>> ELSE HistToggle(c)
    \/ \E c \in Countries : handleListClick(c) /\ HistToggle(c)
    \/ onSnapshot /\ UNCHANGED <<histVars, geoVars>>
    \/ Render /\ UNCHANGED <<histVars, geoVars>>

SpecVisit == InitVisit /\ [][NextVisit]_vars

\* every gesture and the clicks on one country, on one surface, in
\* localStorage mode
FlagCountries == {"FRA"}
FlagRects == {[left |-> 100, top |-> 50, width |-> 500, height |-> 250]}
FlagMovePoints == {<<2, 0>>, <<4, 2>>}
FlagDeltaYs == {-100}
FlagFactors == {Fin(12, 10)}
FlagPairs == {<<<<195, 200>>, <<205, 200>>>>, <<<<190, 200>>, <<210, 200>>>>}

NextFlag ==
    \/ \E f \in FlagFactors : Budget /\ handleZoom(f) /\ HistFlag("zoom")
    \/ handleResetZoom /\ HistFlag("reset")
    \/ \E dy \in FlagDeltaYs, p \in WheelPoints, r \in FlagRects :
          Budget /\ handleWheel(dy, p, r) /\ HistFlag("wheel")
    \/ \E p \in DownPoints : handleMouseDown(p) /\ HistFlag("down")
    \/ \E p \in FlagMovePoints, r \in FlagRects :
          (rendered.isDragging => Budget) /\ handleMouseMove(p, r) /\ HistFlag("move")
    \/ handleMouseUp /\ HistFlag("up")
    \/ handleMouseLeave /\ HistFlag("leave")
    \/ \E t \in FlagPairs : handleTouchStartPinch(t) /\ HistFlag("pinchstart")
    \/ \E n \in TouchCounts, p \in DownPoints :
          handleTouchStartSingle(n, p) /\ HistFlag("touchstart")
    \/ \E t \in FlagPairs, r \in FlagRects :
          Budget /\ handleTouchMovePinch(t, r) /\ HistFlag("pinch")
    \/ \E p \in FlagMovePoints, r \in FlagRects :
          (rendered.isDragging => Budget) /\ handleTouchMoveDrag(p, r)
              /\ HistFlag("touchmove")
    \/ \E n \in TouchCounts : handleTouchEnd(n) /\ HistFlag("touchend")
    \/ \E c \in FlagCountries : handleCountryClick(c) /\ HistFlag("click")
    \/ Render /\ UNCHANGED <<histVars, geoVars>>

SpecFlag == Init /\ [][NextFlag]_vars

\* the projection, the path builder and the label anchor on their inputs
progVars ==
    <<transform, gestureVars, visitVars, firebaseAvailable, rendered, nTouches,
      count>>

NextGeo ==
    \/ \E lon \in Lons, lat \in Lats :
          EvalProject(lon, lat) /\ UNCHANGED <<progVars, histVars, loadVars, ieeeVars>>
    \/ \E f \in Features :
          EvalCreatePath(f) /\ UNCHANGED <<progVars, histVars, loadVars, ieeeVars>>
    \/ \E f \in Features :
          EvalGetLabelPosition(f) /\ UNCHANGED <<progVars, histVars, loadVars, ieeeVars>>

SpecGeo == Init /\ [][NextGeo]_vars

\* the load of the map at mount, on collections of up to two features
RawFeatures ==
    [id : {"", "FRA"}, pid : {"", "ITA"}, iso_a3 : {"", "FRA"},
     name : {"", "France", "Taiwan"}, geometry : BOOLEAN]
Collections ==
    {<< >>} \cup {<<f>> : f \in RawFeatures} \cup {<<f, g>> : f, g \in RawFeatures}

\* fetchMapData of the mount effect: setGeoData, then setLoadingMap(false)
fetchMapData(features) ==
    /\ loadingMap
    /\ geoData' = sanitizedFeatureList(features)
    /\ loadingMap' = FALSE
    /\ collection' = features
    /\ UNCHANGED <<progVars, histVars, geoIn, geoOut, ieeeVars>>

\* the fetch or res.json() rejects: the catch logs, the finally clears the flag
fetchMapDataFails ==
    /\ loadingMap
    /\ loadingMap' = FALSE
    /\ UNCHANGED <<progVars, histVars, geoIn, geoOut, geoData, collection,
                   ieeeVars>>

NextLoad ==
    \/ \E c \in Collections : fetchMapData(c)
    \/ fetchMapDataFails

SpecLoad == Init /\ [][NextLoad]_vars

\* The viewport in binary64: the updaters on the numbers the browser computes.
\* Every event is handled after the re-render of the one before it, the
\* surface has a width and a height, and a move is a handled move of a drag
\* by (dx, dy) pixels.
Rects64 ==
    {[left |-> 100, top |-> 50, width |-> 500, height |-> 250],
     [left |-> 0, top |-> 0, width |-> 300, height |-> 150]}
WheelPoints64 == {<<200, 100>>}
DeltaYs64 == {-100, 100}
Moves64 == {<<1, 0>>, <<-7, 3>>}
TouchPairs64 ==
    {<<<<195, 200>>, <<205, 200>>>>, <<<<160, 200>>, <<240, 200>>>>}

otherVars64 == <<progVars, histVars, geoIn, geoOut, loadVars>>

Budget64 == count64 < MaxUpdates64

\* the history of an update of transform64
Request64(op, target) ==
    /\ request64' = [op |-> op, target |-> target, before |-> transform64]
    /\ count64' = count64 + 1

handleZoom64(factor) ==
    /\ Budget64
    /\ transform64' = handleZoomUpdate64(transform64, factor)
    /\ Request64("button", DMul(transform64.k, factor))
    /\ UNCHANGED <<pinchRefs64, otherVars64>>

handleResetZoom64 ==
    /\ Budget64
    /\ transform64' = Identity64
    /\ Request64("reset", DNum(1))
    /\ UNCHANGED <<pinchRefs64, otherVars64>>

handleWheel64(deltaY, p, rect) ==
    /\ Budget64
    /\ transform64' = handleWheelUpdate64(transform64, deltaY, p[1], p[2], rect)
    /\ Request64("wheel", DMul(transform64.k, WheelScaleFactor64(deltaY)))
    /\ UNCHANGED <<pinchRefs64, otherVars64>>

\* a handled move of a drag: dx, dy from lastMousePos
handleMouseMove64(dx, dy, rect) ==
    /\ Budget64
    /\ transform64' = handleMouseMoveUpdate64(transform64, dx, dy,
                           DDiv(DNum(MAP_WIDTH), DNum(rect.width)))
    /\ Request64("pan", transform64.k)
    /\ UNCHANGED <<pinchRefs64, otherVars64>>

\* two fingers land
handleTouchStart64(touches) ==
    /\ pinchRefs64.distance = Null
    /\ pinchRefs64' = [distance |-> getTouchDistance64(touches),
                       startScale |-> transform64.k]
    /\ UNCHANGED <<transform64, count64, request64, otherVars64>>

\* the two fingers move
handleTouchMove64(touches, rect) ==
    /\ Budget64
    /\ pinchRefs64.distance # Null
    /\ \E target \in {PinchTarget64(pinchRefs64.startScale,
                                     getTouchDistance64(touches),
                                     pinchRefs64.distance)},
          midpoint \in {getTouchMidpoint64(touches)} :
          \E svg \in {SvgPoint64(midpoint.x, midpoint.y, rect)} :
             /\ transform64' = handleTouchMoveUpdate64(transform64,
                                    ClampScale64(target), svg[1], svg[2])
             /\ Request64("pinch", target)
    /\ UNCHANGED <<pinchRefs64, otherVars64>>

\* the fingers lift
handleTouchEnd64 ==
    /\ pinchRefs64.distance # Null
    /\ pinchRefs64' = [distance |-> Null, startScale |-> transform64.k]
    /\ UNCHANGED <<transform64, count64, request64, otherVars64>>

Next64 ==
    \/ \E f \in ZoomFactors64 : handleZoom64(f)
    \/ handleResetZoom64
    \/ \E dy \in DeltaYs64, p \in WheelPoints64, r \in Rects64 :
          handleWheel64(dy, p, r)
    \/ \E m \in Moves64, r \in Rects64 : handleMouseMove64(m[1], m[2], r)
    \/ \E t \in TouchPairs64 : handleTouchStart64(t)
    \/ \E t \in TouchPairs64, r \in Rects64 : handleTouchMove64(t, r)
    \/ handleTouchEnd64

Spec64 == Init /\ [][Next64]_vars

----------------------------------------------------------------------------
(* Steps of the handlers, for the properties below *)

PinchStep == \E t \in TouchPairs, r \in Rects : handleTouchMovePinch(t, r)
MoveStep ==
    \/ \E p \in MovePoints, r \in Rects : handleMouseMove(p, r)
    \/ \E p \in MovePoints, r \in Rects : handleTouchMoveDrag(p, r)
CloseStep ==
    \/ handleMouseUp
    \/ handleMouseLeave
    \/ \E n \in TouchCounts : handleTouchEnd(n)

FiniteTranslation(t) == IsFinite(t.x) /\ IsFinite(t.y)

----------------------------------------------------------------------------
(* C1 *)

\* C1: from the initial transform, after any sequence of button zooms, wheel
\* zooms, pinch moves, pans and resets, the scale k is a number with
\* 1 <= k <= 8.
C1_ScaleWithinBounds ==
    /\ IsFinite(transform.k)
    /\ ~FLess(transform.k, Num(1))
    /\ ~FGreater(transform.k, Num(8))

\* a pinch from 10 px to 80 px reached 8 and one more update left k at 8
C1_Witness ==
    /\ transform.k = Num(8)
    /\ pinchStartScaleRef = Num(1)
    /\ pinchDistanceRef = Num(10)
    /\ count = 2

----------------------------------------------------------------------------
(* C2, C3 *)

Toggled(set, c) == IF c \in set THEN set \ {c} ELSE set \cup {c}

\* the pointer's displacement from the position of the last pointer-down
FromDownX == lastMousePos[1] - downPos[1]
FromDownY == lastMousePos[2] - downPos[2]

\* C2: in a session of pointer-down, one pointer-move and pointer-up, the
\* click delivered on release toggles the country if the move is at most
\* 2 px on both axes; if the move exceeds 2 px on either axis the click does
\* nothing and the transform is left panned by the movement.
C2_ClickOrDrag ==
    [][\A c \in Countries :
          (shape = "up" /\ handleCountryClick(c)) =>
              IF Abs(FromDownX) <= 2 /\ Abs(FromDownY) <= 2
              THEN visited' = Toggled(visited, c)
              ELSE /\ visited' = visited
                   /\ transform' = expect
                   /\ transform'.k = Num(1)]_vars

\* down at (0,0), a move to (1,3) on the surface of width 500, up and a
\* click that did nothing
C2_Witness ==
    /\ shape = "click"
    /\ clicked = "suppressed"
    /\ lastMousePos = <<1, 3>>
    /\ transform = [k |-> Num(1), x |-> Num(2), y |-> Num(6)]
    /\ visited = {}

\* C3: within a pressed session the became-a-drag flag is set as soon as the
\* pointer is more than 2 px from the pointer-down position on either axis,
\* also when the movement is accumulated over several moves of 2 px or less
\* each; the release of such a session fires no click.
C3_CumulativeThreshold ==
    [][/\ (/\ isDragging' /\ rendered'.isDragging
           /\ ExceedsThreshold(lastMousePos'[1] - downPos'[1],
                               lastMousePos'[2] - downPos'[2]))
          => isDragRef'
       /\ \A c \in Countries :
             (ExceedsThreshold(FromDownX, FromDownY) /\ handleCountryClick(c))
             => visited' = visited]_vars

----------------------------------------------------------------------------
(* C6 *)

\* C6: every resolved click on a country, on the map or on its list entry,
\* flips the country's visited status, and two successive toggles of the
\* same country restore the visited set, in localStorage mode and in
\* Firebase mode; the status is read once the writes have come back.
C6_ToggleFlips ==
    Settled =>
        /\ pair.n = 1 => visited = Toggled(pair.base, pair.id)
        /\ pair.n = 2 => visited = pair.base

----------------------------------------------------------------------------
(* C9 *)

\* geometry that is missing, null, of an unrecognised type, or has an empty
\* list of rings or only empty polygons
Malformed(feature) ==
    LET g == feature.geometry
    IN  \/ g.kind # "object"
        \/ g.type \notin {"Polygon", "MultiPolygon"}
        \/ /\ g.hasCoords
           /\ g.type = "Polygon"
           /\ Len(g.coordinates) = 0
        \/ /\ g.hasCoords
           /\ g.type = "MultiPolygon"
           /\ \A i \in 1..Len(g.coordinates) : Len(g.coordinates[i]) = 0

\* C9: for a feature with malformed geometry the path builder returns the
\* empty path and the label anchor returns none; neither raises an exception.
C9_MalformedIsEmpty ==
    Malformed(geoIn.feature) =>
        /\ geoIn.fn = "createPath" => geoOut.path = << >>
        /\ geoIn.fn = "getLabelPosition" => geoOut.pos = NoPosition

----------------------------------------------------------------------------
(* C10 *)

\* C10: project(-180, 90) = (0, 0), project(180, -90) = (1000, 500),
\* project(0, 0) = (500, 250), and for every (lon, lat) of the domain
\* x = (lon + 180) * 1000/360 and y = (90 - lat) * 500/180.
C10_Project ==
    geoIn.fn = "project" =>
        /\ geoOut.pos.some
        /\ geoOut.pos.x = Fin((geoIn.lon + 180) * 1000, 360)
        /\ geoOut.pos.y = Fin((90 - geoIn.lat) * 500, 180)
        /\ (geoIn.lon = -180 /\ geoIn.lat = 90)
              => (geoOut.pos.x = Num(0) /\ geoOut.pos.y = Num(0))
        /\ (geoIn.lon = 180 /\ geoIn.lat = -90)
              => (geoOut.pos.x = Num(1000) /\ geoOut.pos.y = Num(500))
        /\ (geoIn.lon = 0 /\ geoIn.lat = 0)
              => (geoOut.pos.x = Num(500) /\ geoOut.pos.y = Num(250))

\* project(180, -90) was evaluated
C10_Witness ==
    /\ geoIn.fn = "project"
    /\ geoIn.lon = 180
    /\ geoIn.lat = -90
    /\ geoOut.pos = Position(Num(1000), Num(500))

----------------------------------------------------------------------------
(* C4 *)

\* the content point shown at the focal point (fx, fy) under t is the one
\* shown there under u
SameContentAt(fx, fy, t, u) ==
    /\ FDiv(FSub(fx, u.x), u.k) = FDiv(FSub(fx, t.x), t.k)
    /\ FDiv(FSub(fy, u.y), u.k) = FDiv(FSub(fy, t.y), t.k)

\* the focal point of a wheel event or of a touch midpoint, in plane
\* coordinates, on a surface with a width and a height
FocalX(clientX2, rect) == Fin((clientX2 - 2 * rect.left) * MAP_WIDTH, 2 * rect.width)
FocalY(clientY2, rect) == Fin((clientY2 - 2 * rect.top) * MAP_HEIGHT, 2 * rect.height)

\* C4: zoom is focal-point-invariant: for every transform (k, x, y) with k in
\* [1,8] and a finite translation, every focal point F of the plane and every
\* zoom factor, the zoomed transform (k', x', y') satisfies
\* (F.x - x')/k' = (F.x - x)/k and (F.y - y')/k' = (F.y - y)/k, also when k'
\* is clamped; the button zooms about the centre of the plane, the wheel
\* about the cursor and the pinch about the touch midpoint.
C4_FocalPointInvariant ==
    [][(/\ count' = count + 1
        /\ transform'.k # transform.k \/ transform' = transform
        /\ FiniteTranslation(transform)) =>
          /\ \A f \in ZoomFactors :
                (rendered'.k = transform'.k /\ handleZoom(f)) =>
                    SameContentAt(Fin(MAP_WIDTH, 2), Fin(MAP_HEIGHT, 2),
                                  transform, transform')
          /\ \A dy \in DeltaYs, p \in WheelPoints, r \in Rects \ {ZeroRect} :
                (rendered' = rendered /\ handleWheel(dy, p, r)) =>
                    SameContentAt(FocalX(2 * p[1], r), FocalY(2 * p[2], r),
                                  transform, transform')
          /\ \A t \in TouchPairs, r \in Rects \ {ZeroRect} :
                (nTouches = 2 /\ handleTouchMovePinch(t, r)) =>
                    SameContentAt(FocalX(t[1][1] + t[2][1], r),
                                  FocalY(t[1][2] + t[2][2], r),
                                  transform, transform')]_vars

\* a wheel zoom about (800, 400) after a button zoom about the centre
C4_Witness ==
    /\ transform.k = Fin(132, 100)
    /\ transform.x = Fin(-190, 1)
    /\ transform.y = Fin(-95, 1)

----------------------------------------------------------------------------
(* C5 *)

\* C5: two fingers land at distance D when the scale is k0; a two-finger
\* move to distance 2D yields k = min(2 * k0, 8), and the content point under
\* the touch midpoint stays under the midpoint.
C5_PinchDoubles ==
    [][\A t \in TouchPairs, r \in Rects \ {ZeroRect} :
          (/\ nTouches = 2 /\ count' = count + 1
           /\ FiniteTranslation(transform)
           /\ getTouchDistance(t) = FMul(Num(2), pinchDistanceRef)
           /\ handleTouchMovePinch(t, r))
          => /\ transform'.k = MathMin(FMul(Num(2), pinchK0), Num(8))
             /\ SameContentAt(FocalX(t[1][1] + t[2][1], r),
                              FocalY(t[1][2] + t[2][2], r),
                              transform, transform')]_vars

----------------------------------------------------------------------------
(* C7 *)

\* C7: pointer-up, mouse-leave and touch-end all close the pressed state the
\* same way: none of them changes the transform or the drag flag, and after
\* any of them pointer-move and touch-move events leave the transform
\* unchanged until the next pointer-down or touch-start.
C7_ReleaseCloses ==
    [][/\ (count' = count /\ CloseStep) => /\ transform' = transform
                                            /\ isDragRef' = isDragRef
                                            /\ isDragging' = FALSE
       /\ (closed /\ transform' # transform) => ~(MoveStep \/ PinchStep)]_vars

----------------------------------------------------------------------------
(* C8 *)

\* C8: with a surface of width zero at a pointer-move the ratio falls back
\* to 1: the pan applied is exactly (dx, dy) and the translation (x, y)
\* stays finite.
C8_ZeroWidthPan ==
    [][\A p \in MovePoints :
          (/\ rendered.isDragging /\ count' = count + 1
           /\ FiniteTranslation(transform)
           /\ handleMouseMove(p, ZeroRect))
          => /\ transform'.x = FAdd(transform.x, Num(p[1] - lastMousePos[1]))
             /\ transform'.y = FAdd(transform.y, Num(p[2] - lastMousePos[2]))
             /\ FiniteTranslation(transform')]_vars

----------------------------------------------------------------------------
(* C11 *)

\* a point the path builder accepts: an array of at least two numbers
ValidPoint(point) == Len(point) >= 2

\* the subpath of a ring as the claim describes it: a move to the first
\* valid point, a line to each later valid point, then a close
SubpathOfValid(ring) ==
    LET v == SelectSeq(ring, ValidPoint)
    IN  [i \in 1..Len(v) |->
            Instr(IF i = 1 THEN "M" ELSE "L", project(Num(v[i][1]), Num(v[i][2])))]
        \o <<ClosePath>>

RECURSIVE SubpathsOfRings(_, _)
SubpathsOfRings(rings, n) ==
    IF n = 0 THEN << >>
    ELSE SubpathsOfRings(rings, n - 1) \o SubpathOfValid(rings[n])

RECURSIVE SubpathsOfPolygons(_, _)
SubpathsOfPolygons(polygons, n) ==
    IF n = 0 THEN << >>
    ELSE SubpathsOfPolygons(polygons, n - 1)
             \o SubpathsOfRings(polygons[n], Len(polygons[n]))

Ops(path) == [i \in 1..Len(path) |-> path[i].op]

\* C11: for each ring the path builder emits one subpath: a move to the
\* first valid projected point, a line to each later valid point, then a
\* close.  A ring of three valid points gives one move, two lines and one
\* close; an invalid point, at any position including the first, is left out
\* alone and the remaining valid points still form a subpath that starts with
\* a move.
C11_RingSubpaths ==
    LET g == geoIn.feature.geometry
    IN  (geoIn.fn = "createPath" /\ g.kind = "object" /\ g.hasCoords) =>
            /\ g.type = "Polygon" =>
                  geoOut.path = SubpathsOfRings(g.coordinates, Len(g.coordinates))
            /\ g.type = "MultiPolygon" =>
                  geoOut.path = SubpathsOfPolygons(g.coordinates, Len(g.coordinates))
            /\ (g.type = "Polygon" /\ g.coordinates = <<Triangle>>) =>
                  Ops(geoOut.path) = <<"M", "L", "L", "Z">>

----------------------------------------------------------------------------
(* C12 *)

\* a ring with at least one point, all of them valid
WellFormedRing(ring) ==
    /\ Len(ring) > 0
    /\ \A i \in 1..Len(ring) : ValidPoint(ring[i])

Least(xs) == CHOOSE a \in xs : \A b \in xs : ~FLess(b, a)
Greatest(xs) == CHOOSE a \in xs : \A b \in xs : ~FGreater(b, a)

\* the midpoint of the bounding box of the projected points of a ring
MidpointOfRing(ring) ==
    LET pts == {project(Num(ring[i][1]), Num(ring[i][2])) : i \in 1..Len(ring)}
        xs == {pt.x : pt \in pts}
        ys == {pt.y : pt \in pts}
    IN  Position(FDiv(FAdd(Least(xs), Greatest(xs)), Num(2)),
                 FDiv(FAdd(Least(ys), Greatest(ys)), Num(2)))

\* the first rings of the polygons with the greatest vertex count
LargestFirstRings(polygons) ==
    LET first == {polygons[i][1] : i \in 1..Len(polygons)}
    IN  {r \in first : \A q \in first : Len(q) <= Len(r)}

\* C12: for a MultiPolygon whose polygons all have a first ring, the label
\* anchor is the midpoint ((minX+maxX)/2, (minY+maxY)/2) of the projected
\* bounding box of the first ring with the greatest vertex count among the
\* polygons' first rings, in whatever order the polygons are listed; for a
\* Polygon it is that midpoint for the first ring.  The rings are rings of
\* valid points.
C12_LabelAnchor ==
    LET g == geoIn.feature.geometry
    IN  (geoIn.fn = "getLabelPosition" /\ g.kind = "object" /\ g.hasCoords
            /\ Len(g.coordinates) > 0) =>
            /\ (g.type = "Polygon" /\ WellFormedRing(g.coordinates[1])) =>
                  geoOut.pos = MidpointOfRing(g.coordinates[1])
            /\ (/\ g.type = "MultiPolygon"
                /\ \A i \in 1..Len(g.coordinates) : Len(g.coordinates[i]) > 0
                /\ \A r \in LargestFirstRings(g.coordinates) : WellFormedRing(r)) =>
                  geoOut.pos \in
                      {MidpointOfRing(r) : r \in LargestFirstRings(g.coordinates)}

\* the label of a MultiPolygon that lists the triangle before the square is
\* the midpoint of the square
C12_Witness ==
    /\ geoIn.fn = "getLabelPosition"
    /\ geoIn.feature = [geometry |-> Geometry("MultiPolygon",
                                              <<<<Triangle>>, <<Square>>>>)]
    /\ geoOut.pos = Position(Fin(4625, 9), Num(125))

----------------------------------------------------------------------------
(* C13 *)

\* C13: reset returns the transform to exactly (k = 1, x = 0, y = 0) from any
\* reachable transform and leaves the pressed state, the drag flag, the last
\* pointer position and the pinch baseline unchanged.
C13_Reset ==
    [][(count' = count /\ handleResetZoom) =>
          /\ transform' = [k |-> Num(1), x |-> Num(0), y |-> Num(0)]
          /\ isDragging' = isDragging
          /\ isDragRef' = isDragRef
          /\ lastMousePos' = lastMousePos
          /\ pinchDistanceRef' = pinchDistanceRef
          /\ pinchStartScaleRef' = pinchStartScaleRef]_vars

\* a reset during a drag: the one update was a move beyond the threshold,
\* the transform is back at the identity and the press and the flag remain
C13_Witness ==
    /\ transform = [k |-> Num(1), x |-> Num(0), y |-> Num(0)]
    /\ count = 1
    /\ isDragRef
    /\ isDragging

----------------------------------------------------------------------------
(* C14 *)

\* C14: every pointer-move handled while pressed changes only the
\* translation: x' = x + dx * ratio and y' = y + dy * ratio with
\* ratio = MAP_WIDTH / width of the surface, with no clamping of x or y, and
\* k is unchanged.
C14_PanOnlyTranslates ==
    [][\A p \in MovePoints, r \in Rects \ {ZeroRect} :
          (/\ count' = count + 1
           /\ lastMousePos' = p
           /\ rendered.isDragging
           /\ handleMouseMove(p, r) \/ handleTouchMoveDrag(p, r))
          => /\ transform'.k = transform.k
             /\ transform'.x =
                   FAdd(transform.x, Fin((p[1] - lastMousePos[1]) * MAP_WIDTH, r.width))
             /\ transform'.y =
                   FAdd(transform.y, Fin((p[2] - lastMousePos[2]) * MAP_WIDTH, r.width))
             /\ UNCHANGED <<isDragging, pinchDistanceRef, pinchStartScaleRef>>]_vars

\* a button zoom to k = 1.2 about the centre, then a pan by (4, 2) px on the
\* surface of width 500
C14_Witness ==
    /\ transform = [k |-> Fin(12, 10), x |-> Num(-92), y |-> Num(-46)]
    /\ isDragging
    /\ lastMousePos = <<4, 2>>
    /\ count = 2

----------------------------------------------------------------------------
(* C20 *)

\* k' of one wheel step with the factor of the claim
WheelStepScale(k, factor) == MathMax(Num(1), MathMin(Num(8), FMul(k, factor)))

\* C20: every wheel event applies exactly one zoom step chosen by the sign of
\* deltaY: factor 0.9 when deltaY > 0 and factor 1.1 when deltaY < 0, with
\* k' = clamp(k * factor, 1, 8), anchored at the cursor's plane position; it
\* never changes the pressed state, the drag flag or the pinch baseline.
C20_WheelStep ==
    [][\A dy \in DeltaYs, p \in WheelPoints, r \in Rects :
          (/\ count' = count + 1
           /\ rendered' = rendered
           /\ lastMousePos' = lastMousePos
           /\ transform'.k = ClampScale(FMul(transform.k, WheelScaleFactor(dy)))
           /\ handleWheel(dy, p, r))
          => /\ dy > 0 => transform'.k = WheelStepScale(transform.k, Fin(9, 10))
             /\ dy < 0 => transform'.k = WheelStepScale(transform.k, Fin(11, 10))
             /\ transform'.k \in {WheelStepScale(transform.k, Fin(9, 10)),
                                  WheelStepScale(transform.k, Fin(11, 10))}
             /\ (r # ZeroRect /\ FiniteTranslation(transform)) =>
                    SameContentAt(FocalX(2 * p[1], r), FocalY(2 * p[2], r),
                                  transform, transform')
             /\ isDragging' = isDragging
             /\ isDragRef' = isDragRef
             /\ pinchDistanceRef' = pinchDistanceRef
             /\ pinchStartScaleRef' = pinchStartScaleRef]_vars

\* a button zoom to k = 1.2, then a wheel step out about (800, 400): k = 1.08
C20_Witness ==
    /\ transform = [k |-> Fin(108, 100), x |-> Num(-10), y |-> Num(-5)]
    /\ count = 2

----------------------------------------------------------------------------
(* C16 *)

\* C16: each pointer-move while pressed pans by the delta from the previous
\* pointer position, so over one session on a surface of constant width the
\* translation has changed by (last pointer position - pointer-down position)
\* * MAP_WIDTH / width, however the movement is split into move events and
\* whatever earlier sessions did; k is the one at the pointer-down.
C16_PanTelescopes ==
    session.width > 0 =>
        /\ transform.k = session.t0.k
        /\ transform.x =
              FAdd(session.t0.x, Fin(FromDownX * MAP_WIDTH, session.width))
        /\ transform.y =
              FAdd(session.t0.y, Fin(FromDownY * MAP_WIDTH, session.width))

\* a session of two handled moves on the surface of width 500 that ends at
\* (4, 2): the translation is (8, 4)
C16_Witness ==
    /\ session = [t0 |-> [k |-> Num(1), x |-> Num(0), y |-> Num(0)],
                  width |-> 500, moves |-> 2]
    /\ lastMousePos = <<4, 2>>
    /\ transform = [k |-> Num(1), x |-> Num(8), y |-> Num(4)]

----------------------------------------------------------------------------
(* C17 *)

\* C17: when a second finger lands, the pinch baseline is the distance of
\* the two fingers and the current k, the drag flag and the pressed state
\* are false; from then until the next single-pointer down no two-finger
\* move pans the transform through the drag path.
C17_SecondFingerLands ==
    [][/\ \A t \in StartPairs :
             (nTouches < 2 /\ nTouches' = 2 /\ handleTouchStartPinch(t)) =>
                /\ pinchDistanceRef' = getTouchDistance(t)
                /\ pinchStartScaleRef' = transform.k
                /\ ~isDragRef'
                /\ ~isDragging'
       /\ \A p \in MovePoints, r \in Rects :
             (pinchLog.suspended /\ nTouches = 2 /\ handleTouchMoveDrag(p, r)) =>
                transform' = transform]_vars

----------------------------------------------------------------------------
(* C18 *)

\* C18: a touch-end that leaves fewer than two touches clears the pinch
\* distance and sets the baseline scale to the current k of the transform; a
\* touch-end that leaves two or more touches leaves both unchanged.
C18_TouchEndBaseline ==
    [][\A n \in TouchCounts :
          (nTouches' = n /\ count' = count /\ handleTouchEnd(n)) =>
             IF n < 2
             THEN /\ pinchDistanceRef' = Null
                  /\ pinchStartScaleRef' = transform.k
             ELSE /\ pinchDistanceRef' = pinchDistanceRef
                  /\ pinchStartScaleRef' = pinchStartScaleRef]_vars

----------------------------------------------------------------------------
(* C19 *)

\* clamp(k0 * d / D, 1, 8) for a finite k0 and distances d and D > 0
PinchScale(k0, d, D) ==
    LET v == Fin(k0.n * d, k0.d * D)
    IN  IF FLess(v, Num(1)) THEN Num(1) ELSE IF FGreater(v, Num(8)) THEN Num(8) ELSE v

\* C19: during one pinch with baseline distance D and baseline scale k0,
\* after every two-finger move the scale is clamp(k0 * d / D, 1, 8) for the
\* distance d of that move only; a move back to distance D gives k = k0
\* whatever the moves before it.
C19_PinchMovesCompose ==
    [][\A t \in TouchPairs, r \in Rects :
          (/\ nTouches = 2
           /\ pinchLog'.moves = pinchLog.moves + 1
           /\ handleTouchMovePinch(t, r))
          => /\ transform'.k = PinchScale(pinchStartScaleRef, getTouchDistance(t).n,
                                          pinchDistanceRef.n)
             /\ getTouchDistance(t) = pinchDistanceRef =>
                    transform'.k = pinchStartScaleRef]_vars

\* two fingers landed 10 px apart at k = 1; after two two-finger moves, the
\* latest at 10 px, the scale is 1 again
C19_Witness ==
    /\ pinchLog = [moves |-> 2, suspended |-> TRUE]
    /\ nTouches = 2
    /\ pinchDistanceRef = Num(10)
    /\ pinchStartScaleRef = Num(1)
    /\ pinchK0 = Num(1)
    /\ transform.k = Num(1)

----------------------------------------------------------------------------
(* C15 *)

\* a pointer-down or a touch-start
PressStep ==
    \/ \E p \in DownPoints : handleMouseDown(p)
    \/ \E t \in TouchPairs : handleTouchStartPinch(t)
    \/ \E n \in TouchCounts, p \in DownPoints : handleTouchStartSingle(n, p)

\* C15: once the became-a-drag flag is set it stays set through every later
\* pointer-move, pointer-up, mouse-leave, touch-end, wheel, button zoom and
\* reset; only a pointer-down or a touch-start makes it false again, so a
\* click delivered between the release of a drag and the next pointer-down
\* does nothing.
C15_DragFlagSticks ==
    [][/\ (isDragRef /\ ~isDragRef') => PressStep
       /\ \A c \in Countries :
             (isDragRef /\ closed /\ handleCountryClick(c)) =>
                visited' = visited]_vars

\* a drag and one more update, a release and a reset, then a click that did
\* nothing
C15_Witness ==
    /\ clicked = "suppressed"
    /\ closed
    /\ isDragRef
    /\ ~isDragging
    /\ count = 2
    /\ transform = [k |-> Num(1), x |-> Num(0), y |-> Num(0)]
    /\ visited = {}

----------------------------------------------------------------------------
(* C21 *)

\* the zoom of the claim: from the prior transform t to the target scale
\* about the focal point (fx, fy) of the plane
Anchored(t, target, fx, fy) ==
    LET k1 == IF FLess(target, Num(1)) THEN Num(1)
              ELSE IF FGreater(target, Num(8)) THEN Num(8) ELSE target
    IN  [k |-> k1,
         x |-> FSub(fx, FMul(FSub(fx, t.x), FDiv(k1, t.k))),
         y |-> FSub(fy, FMul(FSub(fy, t.y), FDiv(k1, t.k)))]

\* C21: the three zoom modalities anchor identically: from the same prior
\* transform, with the same target scale and the same focal point F of the
\* plane, the button zoom (F = centre of the canvas), the wheel zoom
\* (F = cursor) and the pinch zoom (F = touch midpoint) all give
\* k' = clamp(target, 1, 8), x' = F.x - (F.x - x) * k'/k and
\* y' = F.y - (F.y - y) * k'/k.
C21_ZoomsAnchorAlike ==
    [][count' = count + 1 =>
          /\ \A f \in ZoomFactors :
                (/\ rendered'.k = transform'.k
                 /\ transform'.k = ClampScale(FMul(transform.k, f))
                 /\ handleZoom(f)) =>
                    transform' = Anchored(transform, FMul(transform.k, f),
                                          Fin(MAP_WIDTH, 2), Fin(MAP_HEIGHT, 2))
          /\ \A dy \in DeltaYs, p \in WheelPoints, r \in Rects \ {ZeroRect} :
                (/\ rendered' = rendered
                 /\ lastMousePos' = lastMousePos
                 /\ transform'.k = ClampScale(FMul(transform.k, WheelScaleFactor(dy)))
                 /\ handleWheel(dy, p, r)) =>
                    transform' =
                        Anchored(transform,
                                 FMul(transform.k,
                                      IF dy > 0 THEN Fin(9, 10) ELSE Fin(11, 10)),
                                 FocalX(2 * p[1], r), FocalY(2 * p[2], r))
          /\ \A t \in TouchPairs, r \in Rects \ {ZeroRect} :
                (/\ nTouches = 2
                 /\ pinchLog'.moves = pinchLog.moves + 1
                 /\ transform'.k = DesiredScale(pinchStartScaleRef, getTouchDistance(t),
                                                pinchDistanceRef)
                 /\ handleTouchMovePinch(t, r)) =>
                    transform' =
                        Anchored(transform,
                                 FDiv(FMul(pinchStartScaleRef, getTouchDistance(t)),
                                      pinchDistanceRef),
                                 FocalX(t[1][1] + t[2][1], r),
                                 FocalY(t[1][2] + t[2][2], r))]_vars

\* a button zoom to k = 1.2 about the centre, then two fingers land 10 px
\* apart and move to 20 px about the midpoint (200, 300): k = 2.4
C21_Witness ==
    /\ transform = [k |-> Fin(24, 10), x |-> Num(-400), y |-> Num(-400)]
    /\ pinchLog = [moves |-> 1, suspended |-> TRUE]
    /\ pinchStartScaleRef = Fin(12, 10)
    /\ count = 2

----------------------------------------------------------------------------
(* C22 *)

\* C22: every gesture handler acts on the latest state, not on the values of
\* the render its closure belongs to: whatever events came since the last
\* render, a second finger landing and a touch-end below two touches store
\* the transform's current k, a move while pressed pans and records the
\* pointer, and a move while not pressed changes nothing - as when the events
\* are processed one at a time with a render after each.
C22_LatestState ==
    [][/\ \A t \in StartPairs :
             (nTouches < 2 /\ nTouches' = 2 /\ handleTouchStartPinch(t)) =>
                pinchStartScaleRef' = transform.k
       /\ \A n \in TouchCounts :
             (n < 2 /\ nTouches' = n /\ count' = count /\ handleTouchEnd(n)) =>
                pinchStartScaleRef' = transform.k
       /\ \A p \in MovePoints, r \in Rects :
             (handleMouseMove(p, r) \/ handleTouchMoveDrag(p, r)) =>
                IF isDragging
                THEN /\ lastMousePos' = p
                     /\ transform' =
                           handleMouseMoveUpdate(transform, p[1] - lastMousePos[1],
                                                 p[2] - lastMousePos[2], ScaleRatio(r))
                ELSE /\ transform' = transform
                     /\ lastMousePos' = lastMousePos
                     /\ isDragRef' = isDragRef]_vars

----------------------------------------------------------------------------
(* C23 *)

\* the subpath of a ring when rings of fewer than three valid points are
\* skipped
SubpathUnlessDegenerate(ring) ==
    IF Len(SelectSeq(ring, ValidPoint)) < 3 THEN << >> ELSE SubpathOfValid(ring)

RECURSIVE KeptSubpathsOfRings(_, _)
KeptSubpathsOfRings(rings, n) ==
    IF n = 0 THEN << >>
    ELSE KeptSubpathsOfRings(rings, n - 1) \o SubpathUnlessDegenerate(rings[n])

RECURSIVE KeptSubpathsOfPolygons(_, _)
KeptSubpathsOfPolygons(polygons, n) ==
    IF n = 0 THEN << >>
    ELSE KeptSubpathsOfPolygons(polygons, n - 1)
             \o KeptSubpathsOfRings(polygons[n], Len(polygons[n]))

\* C23: a ring with fewer than three valid points is skipped by the path
\* builder: it contributes no move, line or close to the path of the feature,
\* and the other rings of the feature are emitted in their order.
C23_DegenerateRingSkipped ==
    LET g == geoIn.feature.geometry
    IN  (geoIn.fn = "createPath" /\ g.kind = "object" /\ g.hasCoords) =>
            /\ g.type = "Polygon" =>
                  geoOut.path = KeptSubpathsOfRings(g.coordinates, Len(g.coordinates))
            /\ g.type = "MultiPolygon" =>
                  geoOut.path =
                      KeptSubpathsOfPolygons(g.coordinates, Len(g.coordinates))

----------------------------------------------------------------------------
(* C24 *)

\* C24: after the sanitation of the loaded collection no two features of the
\* resulting feature set have the same properties.id, whatever the collection
\* (features that share an id, an iso code or a name, or have none of them).
C24_UniqueIds ==
    \A i, j \in 1..Len(geoData) : i # j => geoData[i].id # geoData[j].id

----------------------------------------------------------------------------
(* C25 *)

\* the last update asked for a scale beyond the limit the scale was at
BeyondLimit64 ==
    /\ request64.op \in {"button", "wheel", "pinch"}
    /\ \/ request64.before.k = DNum(8) /\ DLess(DNum(8), request64.target)
       \/ request64.before.k = DNum(1) /\ DLess(request64.target, DNum(1))

\* C25: a zoom request that cannot change the scale is a complete no-op:
\* after a button, wheel or pinch zoom that asked to zoom in at k = 8 or to
\* zoom out at k = 1, at whatever focal point, the transform (k, x, y) is
\* the transform before the request, number for number.
C25_ClampedZoomIsNoOp == BeyondLimit64 => transform64 = request64.before

----------------------------------------------------------------------------
(* C26 *)

====
